---- MODULE Spec2Model ----
(***************************************************************************)
(* A model of the dmg crate (nsmaciej/dmg): the Attach and FromFolder      *)
(* builders with the argument lists they render for hdiutil, the decoder   *)
(* of the attach response, and the three owning handles (Handle, With,     *)
(* TempImagePath) with the detach / delete they issue.  hdiutil, the file  *)
(* system and the tempfile crate are the environment: their outcomes are   *)
(* nondeterministic inputs of the actions.                                 *)
(***************************************************************************)
EXTENDS Naturals, Sequences, FiniteSets, TLC

VARIABLES
    proc,      \* "running" | "panicked" (unwound by a panic) | "aborted" (panic while panicking)
    result,    \* what the most recent library call returned (NoResult while none did)
    spawned,   \* argument lists of the hdiutil commands the most recent library call issued
    ab,        \* the Attach builder under construction (NoBuilder: none)
    handles,   \* handle id -> the Handle / With the client obtained (NoHandle: not yet)
    attached,  \* OS: the disks currently attached
    fb,        \* the FromFolder builder under construction (NoBuilder: none)
    temps,     \* temp id -> the temporary path create_temp allocated (NoTemp: not yet)
    files,     \* OS: the image files that currently exist
    stdout     \* decoder specification only: the bytes hdiutil attach printed

vars == <<proc, result, spawned, ab, handles, attached, fb, temps, files, stdout>>

-----------------------------------------------------------------------------
(* Bounds *)

\* longest "system-entities" array the environment prints
MaxEntities == 2
\* disks the OS can hand out (one per successful hdiutil attach)
MaxDisks == 2
\* temporary files the tempfile facility can hand out
MaxTemp == 1
\* handles of attached images the client obtains
MaxHandles == 1

Disks == 1..MaxDisks
\* volumes of one disk image that may carry a mount point
Partitions == {1, 2}

-----------------------------------------------------------------------------
(* Values shared by the operations *)

NoBuilder == [none |-> TRUE]
NoInfo == [none |-> TRUE]
NoHandle == [kind |-> "none", info |-> NoInfo, state |-> "none", detaches |-> <<>>,
             outcome |-> "none"]
NoTemp == [path |-> "", state |-> "none", outcome |-> "none"]
NoResult == [tag |-> "None", kind |-> "", msg |-> "", info |-> NoInfo]

Ok(info) == [tag |-> "Ok", kind |-> "", msg |-> "", info |-> info]
Err(kind, msg) == [tag |-> "Err", kind |-> kind, msg |-> msg, info |-> NoInfo]
\* a panic leaves the function by unwinding: nothing is returned
Panic(msg) == [tag |-> "Panic", kind |-> "", msg |-> msg, info |-> NoInfo]

\* io::Error of a process that could not be spawned (cmd.output()? / cmd.status()?)
SpawnFailed == Err("Os", "spawn failed")
\* String::from_utf8(stderr) failed, mapped to ErrorKind::Other
StderrNotText == Err("Other", "invalid utf-8")

Info(mount_point, device) == [mount_point |-> mount_point, device |-> device]

\* path of the device node / mount point of partition p of disk d
DevEntry(d, p) == "/dev/disk" \o ToString(d) \o "s" \o ToString(p)
MountPoint(d, p) == "/Volumes/image" \o ToString(d) \o "-" \o ToString(p)
\* the disk a device node or mount point belongs to
DiskOf(path) ==
    CHOOSE d \in Disks : \E p \in Partitions : path \in {DevEntry(d, p), MountPoint(d, p)}

-----------------------------------------------------------------------------
(* plist::Value, as far as the decoder looks at it *)

Absent == [type |-> "absent"]
PString(s) == [type |-> "string", s |-> s]
PInteger == [type |-> "integer"]
PArray(a) == [type |-> "array", a |-> a]
\* a dictionary is its keys' values, Absent for a key it does not hold
PDict(d) == [type |-> "dict", d |-> d]
\* bytes Value::from_reader rejects
NotPlist == [type |-> "garbage"]

Some(v) == [some |-> TRUE, v |-> v]
None == [some |-> FALSE]

as_dictionary(v) == IF v.type = "dict" THEN Some(v.d) ELSE None
as_array(v) == IF v.type = "array" THEN Some(v.a) ELSE None
as_string(v) == IF v.type = "string" THEN Some(v.s) ELSE None
\* Dictionary::get
get(d, key) == IF key \in DOMAIN d /\ d[key] # Absent THEN Some(d[key]) ELSE None
has_key(d, key) == get(d, key).some

\* check!: the error every failed lookup returns
MissingProperty == Err("InvalidData", "could not find property")
NoMatch == Err("Other", "could not extract data")
Unparseable == Err("InvalidData", "could not parse plist")
\* properties["dev-entry"] on a dictionary without the key: Index panics
IndexPanic == Panic("no entry found for key")

-----------------------------------------------------------------------------
(* The response decoder: the tail of Attach::attach_info *)

\* the Info built from the first entity that carries "mount-point"
entity_info(properties, mount_point) ==
    IF ~as_string(mount_point).some THEN MissingProperty
    ELSE IF ~has_key(properties, "dev-entry") THEN IndexPanic
    ELSE IF ~as_string(properties["dev-entry"]).some THEN MissingProperty
    ELSE Ok(Info(as_string(mount_point).v, as_string(properties["dev-entry"]).v))

\* scan_entities ending in the check! error instead of its own
RECURSIVE scan_entities_generic_error(_, _)
scan_entities_generic_error(entities, i) ==
    IF i > Len(entities) THEN MissingProperty
    ELSE LET properties == as_dictionary(entities[i]) IN
         IF ~properties.some THEN MissingProperty
         ELSE LET mount_point == get(properties.v, "mount-point") IN
              IF mount_point.some THEN entity_info(properties.v, mount_point.v)
              ELSE scan_entities_generic_error(entities, i + 1)

\* scan_entities giving up after the first entity instead of going on
scan_entities_first_only(entities, i) ==
    IF i > Len(entities) THEN NoMatch
    ELSE LET properties == as_dictionary(entities[i]) IN
         IF ~properties.some THEN MissingProperty
         ELSE LET mount_point == get(properties.v, "mount-point") IN
              IF mount_point.some THEN entity_info(properties.v, mount_point.v)
              ELSE NoMatch

\* for entity in entities, from the i-th on
RECURSIVE scan_entities(_, _)
scan_entities(entities, i) ==
    IF i > Len(entities) THEN NoMatch
    ELSE LET properties == as_dictionary(entities[i]) IN
         IF ~properties.some THEN MissingProperty
         ELSE LET mount_point == get(properties.v, "mount-point") IN
              IF mount_point.some THEN entity_info(properties.v, mount_point.v)
              ELSE scan_entities(entities, i + 1)

\* what attach_info makes of the bytes a successful hdiutil attach printed
decode_response(out) ==
    IF out = NotPlist THEN Unparseable
    ELSE LET root == as_dictionary(out) IN
         IF ~root.some THEN MissingProperty
         ELSE LET se == get(root.v, "system-entities") IN
              IF ~se.some THEN MissingProperty
              ELSE LET entities == as_array(se.v) IN
                   IF ~entities.some THEN MissingProperty
                   ELSE scan_entities(entities.v, 1)

-----------------------------------------------------------------------------
(* The responses the environment may print for disk d *)

\* a system entity describes one partition p of the disk: each of its two keys
\* is missing, of the wrong type, or the string naming that partition's path
EntityValues(key, d, p) ==
    {Absent, PInteger,
     PString(IF key = "mount-point" THEN MountPoint(d, p) ELSE DevEntry(d, p))}

Entities(d) ==
    {PInteger}
    \cup UNION {{PDict([k \in {"mount-point", "dev-entry"} |->
                          IF k = "mount-point" THEN mp ELSE dev]) :
                    mp \in EntityValues("mount-point", d, p),
                    dev \in EntityValues("dev-entry", d, p)} : p \in Partitions}

EntitySeqs(d) == UNION {[1..n -> Entities(d)] : n \in 0..MaxEntities}

Root(se) == PDict([k \in {"system-entities"} |-> se])

Responses(d) ==
    {NotPlist, PInteger, Root(Absent), Root(PInteger)}
    \cup {Root(PArray(a)) : a \in EntitySeqs(d)}

AllResponses == UNION {Responses(d) : d \in Disks}

-----------------------------------------------------------------------------
(* The Attach builder and the arguments it renders *)

Images == {"Test.dmg"}
MountDirs == {"/mnt"}
temp_dir == "/tmp"

MountDefault == [variant |-> "Default", path |-> ""]
Mount(variant, path) == [variant |-> variant, path |-> path]

Attach_new(path) ==
    [image |-> path, mount |-> MountDefault, hidden |-> FALSE, force_readonly |-> FALSE]

\* mount_fn! keeping a mount strategy that was selected before
mount_fn_keep_first(self, variant, path) ==
    IF self.mount.variant = "Default" THEN [self EXCEPT !.mount = Mount(variant, path)]
    ELSE self

\* mount_fn!: mount_root, mount_point, mount_random
mount_fn(self, variant, path) == [self EXCEPT !.mount = Mount(variant, path)]
mount_temp(self) == mount_fn(self, "Random", temp_dir)
hidden(self) == [self EXCEPT !.hidden = TRUE]
force_readonly(self) == [self EXCEPT !.force_readonly = TRUE]

\* the match without its Mount::Point arm
mount_args_no_point(mount) ==
    CASE mount.variant = "Default" -> <<>>
      [] mount.variant = "Random" -> <<"-mountrandom", mount.path>>
      [] mount.variant = "Root" -> <<"-mountroot", mount.path>>
      [] mount.variant = "Point" -> <<>>

\* match self.mount { ... }
mount_args(mount) ==
    CASE mount.variant = "Default" -> <<>>
      [] mount.variant = "Random" -> <<"-mountrandom", mount.path>>
      [] mount.variant = "Root" -> <<"-mountroot", mount.path>>
      [] mount.variant = "Point" -> <<"-mountpoint", mount.path>>

\* the argument list attach_info hands to hdiutil
attach_args(self) ==
    <<"attach">>
    \o mount_args(self.mount)
    \o (IF self.force_readonly THEN <<"-readonly">> ELSE <<>>)
    \o (IF self.hidden THEN <<"-nobrowse">> ELSE <<>>)
    \o <<"-plist", self.image>>

-----------------------------------------------------------------------------
(* Running hdiutil attach / detach *)

\* what one run of hdiutil attach can do, when the OS would attach disk d
AttachExts(d) ==
    {[spawn |-> FALSE, success |-> FALSE, stderr_text |-> TRUE, stdout |-> NotPlist]}
    \cup {[spawn |-> TRUE, success |-> FALSE, stderr_text |-> t, stdout |-> NotPlist] :
             t \in BOOLEAN}
    \cup {[spawn |-> TRUE, success |-> TRUE, stderr_text |-> TRUE, stdout |-> out] :
             out \in Responses(d)}

\* attach_info after the arguments are rendered: cmd.output()?, the status, the response
attach_output(ext) ==
    IF ~ext.spawn THEN SpawnFailed
    ELSE IF ~ext.success
         THEN IF ext.stderr_text THEN Err("Other", "hdiutil attach failed")
              ELSE StderrNotText
    ELSE decode_response(ext.stdout)

\* the runs of attach_info: the disk the OS attached (0: none) and what is returned
AttachRuns ==
    UNION {{[disk |-> IF ext.spawn /\ ext.success THEN d ELSE 0,
             result |-> attach_output(ext)] : ext \in AttachExts(d)} : d \in Disks}

DetachExts == {"spawn_failed", "nonzero", "ok"}

detach_args(path, force) ==
    <<"detach">> \o (IF force THEN <<"-force">> ELSE <<>>) \o <<path>>

\* the free function detach(path, force)
detach(path, force, ext) ==
    [args |-> detach_args(path, force),
     result |-> CASE ext = "spawn_failed" -> SpawnFailed
                  [] ext = "nonzero" -> Err("Other", "non-zero exit status for detach")
                  [] ext = "ok" -> Ok(NoInfo)]

\* a call that runs its command again when it failed
issued_with_retry(call) ==
    IF call.result.tag = "Ok" THEN <<call.args>> ELSE <<call.args, call.args>>

\* cmd.output() / cmd.status(): the command a call built is run once, and its
\* failure is returned by `?` or by the Err that follows
issued(call) == <<call.args>>

\* hdiutil detach exits with success only for a disk that is attached
DetachPossible(path, ext) == ext = "ok" => DiskOf(path) \in attached

-----------------------------------------------------------------------------
(* The FromFolder builder and the arguments it renders *)

Sources == {"test"}
VolumeNames == {"demo"}
Targets == {"out.dmg"}

\* format_enum!: format_name is the variant's own name
FolderImageFormat ==
    {"UDRO", "UDCO", "UDZO", "UDBZ", "ULFO", "ULMO", "UFBI", "IPOD", "UDSB", "UDSP",
     "UDRW", "UDTO", "UNIV", "SPARSEBUNDLE", "SPARSE", "UDIF"}
format_name(format) == CHOOSE token \in FolderImageFormat : token = format

FromFolder_new(source_folder) ==
    [common_options |-> [overwrite |-> FALSE, volume_name |-> None],
     source_folder |-> source_folder,
     spotlight |-> FALSE, any_owners |-> FALSE, skip_unreadable |-> FALSE,
     atomic |-> TRUE, format |-> "UDZO"]

\* common_options_build!
overwrite(self) == [self EXCEPT !.common_options.overwrite = TRUE]
volume_name(self, name) == [self EXCEPT !.common_options.volume_name = Some(name)]

skip_unreadable(self) == [self EXCEPT !.skip_unreadable = TRUE]
any_owners(self) == [self EXCEPT !.any_owners = TRUE]
spotlight_index(self) == [self EXCEPT !.spotlight = TRUE]
non_atomic(self) == [self EXCEPT !.atomic = FALSE]

apply_common_options(options) ==
    (IF options.overwrite THEN <<"-ov">> ELSE <<>>)
    \o (IF options.volume_name.some THEN <<"-volname", options.volume_name.v>> ELSE <<>>)

\* binary_option emitting the positive flag whatever `enabled` is
binary_option_always(option, enabled) == <<"-" \o option>>

\* format!("-{option}") or format!("-no{option}")
binary_option(option, enabled) ==
    <<IF enabled THEN "-" \o option ELSE "-no" \o option>>

\* the argument list FromFolder::create hands to hdiutil
create_args(self, image_path) ==
    <<"create">>
    \o apply_common_options(self.common_options)
    \o binary_option("spotlight", self.spotlight)
    \o binary_option("anyowners", self.any_owners)
    \o binary_option("skipunreadable", self.skip_unreadable)
    \o binary_option("atomic", self.atomic)
    \o <<"-format", format_name(self.format)>>
    \o <<"-srcfolder", self.source_folder>>
    \o <<image_path>>

\* what one run of hdiutil create can do
CreateExts ==
    {[spawn |-> FALSE, success |-> FALSE, stderr_text |-> TRUE]}
    \cup {[spawn |-> TRUE, success |-> FALSE, stderr_text |-> t] : t \in BOOLEAN}
    \cup {[spawn |-> TRUE, success |-> TRUE, stderr_text |-> TRUE]}

\* FromFolder::create
create(self, image_path, ext) ==
    [args |-> create_args(self, image_path),
     result |-> IF ~ext.spawn THEN SpawnFailed
                ELSE IF ~ext.success
                     THEN IF ext.stderr_text THEN Err("Other", "hdiutil create failed")
                          ELSE StderrNotText
                ELSE Ok(NoInfo)]

Range(seq) == {seq[k] : k \in 1..Len(seq)}

\* hdiutil create refuses to replace an existing image unless told -ov
CreatePossible(call, image_path, existing, ext) ==
    (ext.spawn /\ ext.success) => ("-ov" \in Range(call.args) \/ image_path \notin existing)

-----------------------------------------------------------------------------
(* create_temp and TempImagePath *)

TempIds == 1..MaxTemp

\* tempfile::Builder::new().suffix(..).tempfile(): a fresh name in the temporary
\* directory, the default prefix, random characters (the r-th draw), the suffix
tempfile(suffix, r) == temp_dir \o "/.tmp" \o ToString(r) \o suffix

\* create_temp asking for another suffix
create_temp_path_img(r) == tempfile(".img", r)

create_temp_path(r) == tempfile(".dmg", r)

\* create_temp passing the builder on as it is
create_temp_builder_as_is(self) == self

\* self.overwrite(): required since tempfile created the file
create_temp_builder(self) == overwrite(self)

\* a drop of TempImagePath that insists on the deletion
TempImagePath_drop_expect(del) == IF del = "ok" THEN NoResult ELSE Panic("could not delete")

\* TempImagePath has no Drop impl of its own: the TempPath it wraps removes the
\* file when dropped and ignores the result of the removal
TempImagePath_drop(del) == NoResult

\* fs::remove_file(path), succeeding or not
remove_file(existing, path, del) == IF del = "ok" THEN existing \ {path} ELSE existing

\* a create_temp that keeps the placeholder when create failed
create_temp_cleanup_leak(existing, path, del) == existing

\* create(..)? returning early: temp_path goes out of scope, and the TempPath
\* removes its file, ignoring the result of the removal
create_temp_cleanup(existing, path, del) == remove_file(existing, path, del)

\* io::Error of tempfile() when no file could be created
TempfileFailed == Err("Os", "tempfile failed")

-----------------------------------------------------------------------------
(* Handle and With *)

HandleIds == 1..MaxHandles
Min(S) == CHOOSE x \in S : \A y \in S : x <= y

\* Handle(Info) / With(Info).  state: "live", "detached" (Handle consumed by
\* detach / force_detach), "discarded" (Handle dropped: it has no Drop impl)
\* or "dropped" (With left its scope).  detaches and outcome record the
\* detach commands issued through the handle and how the last one ended.
NewHandle(kind, info) ==
    [kind |-> kind, info |-> info, state |-> "live", detaches |-> <<>>,
     outcome |-> "none"]

Live(kind) == {i \in HandleIds : handles[i].kind = kind /\ handles[i].state = "live"}

\* Handle::detach, Handle::force_detach and Drop for With: the detach each issues
Handle_detach(self, ext) == detach(self.info.device, FALSE, ext)
Handle_force_detach(self, ext) == detach(self.info.device, TRUE, ext)

\* Drop for With detaching with -force
With_drop_forced(self, ext) == detach(self.info.device, TRUE, ext)

With_drop(self, ext) == detach(self.info.device, FALSE, ext)

\* a Drop for Handle that detaches, as With's does
Handle_drop_detaches(self) == <<detach_args(self.info.device, FALSE)>>

\* the commands issued when a Handle goes out of scope: Handle has no Drop impl
Handle_drop(self) == <<>>

\* Drop for With ignoring the result of detach
expect_detach_ignored(res) == NoResult

\* .expect("could not detach") in Drop for With
expect_detach(res) == IF res.tag = "Ok" THEN NoResult ELSE Panic("could not detach")

\* a panic unwinds the running process and aborts one that is already unwinding
AfterPanic == IF proc = "running" THEN "unwinding" ELSE "aborted"

\* handle i issued `call` and became `state`
Released(i, call, state) ==
    /\ handles' = [handles EXCEPT ![i] =
           [@ EXCEPT !.state = state,
                     !.detaches = Append(@, call.args),
                     !.outcome = IF call.result.tag = "Ok" THEN "ok" ELSE "failed"]]
    /\ spawned' = issued(call)
    /\ attached' = IF call.result.tag = "Ok"
                   THEN attached \ {DiskOf(handles[i].info.device)}
                   ELSE attached

-----------------------------------------------------------------------------
(* Actions of the attach side *)

CreateSide == <<fb, temps, files>>

AttachNew(image) ==
    /\ proc = "running" /\ ab = NoBuilder
    /\ ab' = Attach_new(image)
    /\ result' = NoResult /\ spawned' = <<>>
    /\ UNCHANGED <<proc, handles, attached, CreateSide, stdout>>

\* a builder method: ab becomes next
Build(next) ==
    /\ proc = "running" /\ ab # NoBuilder
    /\ ab' = next
    /\ result' = NoResult /\ spawned' = <<>>
    /\ UNCHANGED <<proc, handles, attached, CreateSide, stdout>>

MountRoot(path) == Build(mount_fn(ab, "Root", path))
MountPoint_(path) == Build(mount_fn(ab, "Point", path))
MountRandom(path) == Build(mount_fn(ab, "Random", path))
MountTemp == Build(mount_temp(ab))
Hidden == Build(hidden(ab))
ForceReadonly == Build(force_readonly(ab))

\* attach_info, then .map(Handle) or .map(With)
AttachInfo(kind) ==
    /\ proc = "running" /\ ab # NoBuilder
    /\ \E i \in HandleIds : handles[i] = NoHandle
    /\ \E run \in AttachRuns :
        /\ run.disk # 0 => (attached # Disks /\ run.disk = Min(Disks \ attached))
        /\ spawned' = issued([args |-> attach_args(ab), result |-> run.result])
        /\ result' = run.result
        /\ attached' = IF run.disk # 0 THEN attached \cup {run.disk} ELSE attached
        /\ handles' = IF run.result.tag = "Ok"
                      THEN [handles EXCEPT
                               ![Min({i \in HandleIds : handles[i] = NoHandle})] =
                                   NewHandle(kind, run.result.info)]
                      ELSE handles
        /\ proc' = IF run.result.tag = "Panic" THEN AfterPanic ELSE proc
    /\ ab' = NoBuilder
    /\ UNCHANGED <<CreateSide, stdout>>

Attach_attach == AttachInfo("Handle")
Attach_with == AttachInfo("With")

HandleDetach(i) ==
    /\ proc = "running" /\ i \in Live("Handle")
    /\ \E ext \in DetachExts :
        LET call == Handle_detach(handles[i], ext) IN
        /\ DetachPossible(handles[i].info.device, ext)
        /\ Released(i, call, "detached")
        /\ result' = call.result
    /\ UNCHANGED <<proc, ab, CreateSide, stdout>>

HandleForceDetach(i) ==
    /\ proc = "running" /\ i \in Live("Handle")
    /\ \E ext \in DetachExts :
        LET call == Handle_force_detach(handles[i], ext) IN
        /\ DetachPossible(handles[i].info.device, ext)
        /\ Released(i, call, "detached")
        /\ result' = call.result
    /\ UNCHANGED <<proc, ab, CreateSide, stdout>>

\* a Handle goes out of scope without detach() or force_detach()
HandleDiscard(i) ==
    /\ proc \in {"running", "unwinding"} /\ i \in Live("Handle")
    /\ handles' = [handles EXCEPT ![i] =
           [@ EXCEPT !.state = "discarded",
                     !.detaches = @ \o Handle_drop(handles[i])]]
    /\ spawned' = IF Handle_drop(handles[i]) = <<>> THEN spawned
                  ELSE Handle_drop(handles[i])
    /\ UNCHANGED <<proc, result, ab, attached, CreateSide, stdout>>

\* a With goes out of scope, by the end of its block or by unwinding
WithDrop(i) ==
    /\ proc \in {"running", "unwinding"} /\ i \in Live("With")
    /\ \E ext \in DetachExts :
        LET call == With_drop(handles[i], ext) IN
        /\ DetachPossible(handles[i].info.device, ext)
        /\ Released(i, call, "dropped")
        /\ result' = expect_detach(call.result)
        /\ proc' = IF expect_detach(call.result).tag = "Panic" THEN AfterPanic ELSE proc
    /\ UNCHANGED <<ab, CreateSide, stdout>>

\* the client's own code panics (an .expect() on an Err, a failed assertion)
ClientPanic ==
    /\ proc = "running"
    /\ proc' = "unwinding"
    /\ UNCHANGED <<result, spawned, ab, handles, attached, CreateSide, stdout>>

\* unwinding has dropped every live handle: the process exits with the panic
UnwindDone ==
    /\ proc = "unwinding"
    /\ Live("Handle") = {} /\ Live("With") = {}
    /\ \A t \in DOMAIN temps : temps[t].state # "live"
    /\ proc' = "panicked"
    /\ UNCHANGED <<result, spawned, ab, handles, attached, CreateSide, stdout>>

Init ==
    /\ proc = "running" /\ result = NoResult /\ spawned = <<>>
    /\ ab = NoBuilder /\ handles = [i \in HandleIds |-> NoHandle] /\ attached = {}
    /\ fb = NoBuilder /\ temps = [t \in TempIds |-> NoTemp] /\ files = {}
    /\ stdout = NotPlist

Next ==
    \/ \E image \in Images : AttachNew(image)
    \/ \E path \in MountDirs : MountRoot(path)
    \/ \E path \in MountDirs : MountPoint_(path)
    \/ \E path \in MountDirs : MountRandom(path)
    \/ MountTemp
    \/ Hidden
    \/ ForceReadonly
    \/ Attach_attach
    \/ Attach_with
    \/ \E i \in HandleIds : HandleDetach(i)
    \/ \E i \in HandleIds : HandleForceDetach(i)
    \/ \E i \in HandleIds : HandleDiscard(i)
    \/ \E i \in HandleIds : WithDrop(i)
    \/ ClientPanic
    \/ UnwindDone

Spec == Init /\ [][Next]_vars

-----------------------------------------------------------------------------
(* Actions of the create side *)

AttachSide == <<ab, handles, attached>>

FromFolderNew(source_folder) ==
    /\ proc = "running" /\ fb = NoBuilder
    /\ fb' = FromFolder_new(source_folder)
    /\ result' = NoResult /\ spawned' = <<>>
    /\ UNCHANGED <<proc, temps, files, AttachSide, stdout>>

\* a builder method: fb becomes next
BuildFolder(next) ==
    /\ proc = "running" /\ fb # NoBuilder
    /\ fb' = next
    /\ result' = NoResult /\ spawned' = <<>>
    /\ UNCHANGED <<proc, temps, files, AttachSide, stdout>>

Overwrite == BuildFolder(overwrite(fb))
VolumeName(name) == BuildFolder(volume_name(fb, name))
SkipUnreadable == BuildFolder(skip_unreadable(fb))
AnyOwners == BuildFolder(any_owners(fb))
SpotlightIndex == BuildFolder(spotlight_index(fb))
NonAtomic == BuildFolder(non_atomic(fb))

Create(image_path) ==
    /\ proc = "running" /\ fb # NoBuilder
    /\ \E ext \in CreateExts :
        LET call == create(fb, image_path, ext) IN
        /\ CreatePossible(call, image_path, files, ext)
        /\ spawned' = issued(call)
        /\ result' = call.result
        /\ files' = IF call.result.tag = "Ok" THEN files \cup {image_path} ELSE files
    /\ fb' = NoBuilder
    /\ UNCHANGED <<proc, temps, AttachSide, stdout>>

\* create_temp: the placeholder file, create over it, the handle ("live", to
\* become "dropped"); on an error of create the TempPath is dropped before the
\* error is returned ("failed", with the outcome of the removal)
CreateTemp ==
    /\ proc = "running" /\ fb # NoBuilder
    /\ \/ /\ result' = TempfileFailed
          /\ spawned' = <<>>
          /\ UNCHANGED <<temps, files>>
       \/ \E r \in TempIds, ext \in CreateExts, del \in {"ok", "failed"} :
            LET temp_path == create_temp_path(r)
                placed == files \cup {temp_path}
                call == create(create_temp_builder(fb), temp_path, ext) IN
            /\ temps[r] = NoTemp /\ \A q \in TempIds : temps[q] = NoTemp => r <= q
            /\ temp_path \notin files
            /\ CreatePossible(call, temp_path, placed, ext)
            /\ spawned' = issued(call)
            /\ result' = call.result
            /\ IF call.result.tag = "Ok"
               THEN /\ del = "ok"
                    /\ temps' = [temps EXCEPT ![r] =
                           [path |-> temp_path, state |-> "live", outcome |-> "none"]]
                    /\ files' = placed
               ELSE /\ temps' = [temps EXCEPT ![r] =
                           [path |-> temp_path, state |-> "failed", outcome |-> del]]
                    /\ files' = create_temp_cleanup(placed, temp_path, del)
    /\ fb' = NoBuilder
    /\ UNCHANGED <<proc, AttachSide, stdout>>

\* a TempImagePath goes out of scope, by the end of its block or by unwinding
TempDrop(t) ==
    /\ proc \in {"running", "unwinding"} /\ temps[t].state = "live"
    /\ \E del \in {"ok", "failed"} :
        /\ files' = remove_file(files, temps[t].path, del)
        /\ temps' = [temps EXCEPT ![t] = [@ EXCEPT !.state = "dropped", !.outcome = del]]
        /\ result' = TempImagePath_drop(del)
        /\ proc' = IF TempImagePath_drop(del).tag = "Panic" THEN AfterPanic ELSE proc
    /\ spawned' = <<>>
    /\ UNCHANGED <<fb, AttachSide, stdout>>

NextCreate ==
    \/ \E source_folder \in Sources : FromFolderNew(source_folder)
    \/ Overwrite
    \/ \E name \in VolumeNames : VolumeName(name)
    \/ SkipUnreadable
    \/ AnyOwners
    \/ SpotlightIndex
    \/ NonAtomic
    \/ \E image_path \in Targets : Create(image_path)
    \/ CreateTemp
    \/ \E t \in TempIds : TempDrop(t)
    \/ ClientPanic
    \/ UnwindDone

SpecCreate == Init /\ [][NextCreate]_vars

-----------------------------------------------------------------------------
(* The decoder on its own: every response, decoded once *)

InitDecode ==
    /\ proc = "running" /\ result = NoResult /\ spawned = <<>>
    /\ ab = NoBuilder /\ handles = [i \in HandleIds |-> NoHandle] /\ attached = {}
    /\ fb = NoBuilder /\ temps = [t \in TempIds |-> NoTemp] /\ files = {}
    /\ stdout \in AllResponses

\* attach_info from the point where hdiutil has exited with success and printed stdout
DecodeResponse ==
    /\ result = NoResult
    /\ result' = attach_output([spawn |-> TRUE, success |-> TRUE, stderr_text |-> TRUE,
                                stdout |-> stdout])
    /\ UNCHANGED <<proc, spawned, ab, handles, attached, CreateSide, stdout>>

NextDecode == DecodeResponse

SpecDecode == InitDecode /\ [][NextDecode]_vars

-----------------------------------------------------------------------------
(* The calls that run hdiutil, the free function detach among them *)

\* the paths a client hands to detach: the device node and the mount point of
\* the Info in a handle it obtained
DetachPaths ==
    UNION {{handles[i].info.device, handles[i].info.mount_point} :
             i \in {h \in HandleIds : handles[h] # NoHandle}}

\* the free function detach(path, force)
FreeDetach(path, force) ==
    /\ proc = "running"
    /\ \E ext \in DetachExts :
        LET call == detach(path, force, ext) IN
        /\ DetachPossible(path, ext)
        /\ spawned' = issued(call)
        /\ result' = call.result
        /\ attached' = IF call.result.tag = "Ok" THEN attached \ {DiskOf(path)}
                       ELSE attached
    /\ UNCHANGED <<proc, ab, handles, CreateSide, stdout>>

\* a client holding one Attach and one FromFolder builder, just constructed
InitCalls ==
    /\ proc = "running" /\ result = NoResult /\ spawned = <<>>
    /\ ab \in {Attach_new(image) : image \in Images}
    /\ handles = [i \in HandleIds |-> NoHandle] /\ attached = {}
    /\ fb \in {FromFolder_new(source_folder) : source_folder \in Sources}
    /\ temps = [t \in TempIds |-> NoTemp] /\ files = {}
    /\ stdout = NotPlist

NextCalls ==
    \/ Attach_attach
    \/ Attach_with
    \/ \E i \in HandleIds : HandleDetach(i)
    \/ \E i \in HandleIds : HandleForceDetach(i)
    \/ \E path \in DetachPaths, force \in BOOLEAN : FreeDetach(path, force)
    \/ \E image_path \in Targets : Create(image_path)
    \/ CreateTemp

SpecCalls == InitCalls /\ [][NextCalls]_vars

-----------------------------------------------------------------------------
(* Properties of the decoder (checked under SpecDecode) *)

Decoded == result # NoResult

\* the response is a dictionary whose "system-entities" is an array
IsEntityArray(out) == out.type = "dict" /\ out.d["system-entities"].type = "array"
EntityArray(out) == out.d["system-entities"].a
IsMapping(e) == e.type = "dict"
HasKey(e, k) == IsMapping(e) /\ e.d[k].type # "absent"
HasString(e, k) == IsMapping(e) /\ e.d[k].type = "string"

\* the first element carrying "mount-point" is the i-th
FirstMountEntity(a, i) ==
    /\ i \in 1..Len(a)
    /\ HasKey(a[i], "mount-point")
    /\ \A j \in 1..(i - 1) : ~HasKey(a[j], "mount-point")

\* C6: when the first entity carrying "mount-point" has no "dev-entry", the
\* attach operation returns the missing-property error as a value: it neither
\* panics nor returns a handle.
C6_MissingDevEntryIsReturned ==
    (Decoded /\ IsEntityArray(stdout)
       /\ \E i \in 1..Len(EntityArray(stdout)) :
            /\ FirstMountEntity(EntityArray(stdout), i)
            /\ ~HasKey(EntityArray(stdout)[i], "dev-entry"))
    => result = MissingProperty

\* C7 as stated: an array that is empty or holds no mapping with "mount-point"
\* yields the same error as a missing key or a value of the wrong type.
C7_NoMatchIsMissingProperty ==
    (Decoded /\ IsEntityArray(stdout)
       /\ \A i \in 1..Len(EntityArray(stdout)) :
            ~HasKey(EntityArray(stdout)[i], "mount-point"))
    => result = MissingProperty

\* C7 amended: an array that is empty or holds only mappings, none with a
\* "mount-point" key, yields the error (Other, "could not extract data"), which
\* differs in kind and message from the missing-property error returned for a
\* missing "system-entities" key or a value of the wrong type; an array without
\* a "mount-point" that holds an element that is no mapping yields the
\* missing-property error.
C7_NoMatchIsItsOwnError ==
    /\ NoMatch.kind # MissingProperty.kind /\ NoMatch.msg # MissingProperty.msg
    /\ (Decoded /\ ~IsEntityArray(stdout) /\ stdout # NotPlist) => result = MissingProperty
    /\ (Decoded /\ IsEntityArray(stdout)
          /\ \A i \in 1..Len(EntityArray(stdout)) :
               ~HasKey(EntityArray(stdout)[i], "mount-point"))
       => result = IF \A i \in 1..Len(EntityArray(stdout)) :
                         IsMapping(EntityArray(stdout)[i])
                    THEN NoMatch ELSE MissingProperty

\* an empty array, decoded
C7_Witness ==
    /\ Decoded /\ IsEntityArray(stdout) /\ EntityArray(stdout) = <<>>
    /\ result = NoMatch

\* the first mapping that has both keys as strings is the i-th
FirstFullEntity(a, i) ==
    /\ i \in 1..Len(a)
    /\ HasString(a[i], "mount-point") /\ HasString(a[i], "dev-entry")
    /\ \A j \in 1..(i - 1) :
         ~(HasString(a[j], "mount-point") /\ HasString(a[j], "dev-entry"))

InfoOf(e) == Info(e.d["mount-point"].s, e.d["dev-entry"].s)

\* C8 as stated: the mount point and device of the first mapping that has both
\* keys as strings are returned, whatever precedes it without a "mount-point"
\* (elements that are no mappings included) being skipped.
C8_FirstFullEntityWins ==
    (Decoded /\ IsEntityArray(stdout))
    => \A i \in 1..Len(EntityArray(stdout)) :
         (/\ FirstFullEntity(EntityArray(stdout), i)
          /\ \A j \in 1..(i - 1) : ~HasKey(EntityArray(stdout)[j], "mount-point"))
         => result = Ok(InfoOf(EntityArray(stdout)[i]))

\* C8 amended: when every element before the first one carrying "mount-point"
\* is a mapping, and that element has "mount-point" and "dev-entry" as strings,
\* the decoder returns the mount point and device of that same element; the
\* mappings before it are skipped and the elements after it never matter.  An
\* element before it that is no mapping makes the decoder return the
\* missing-property error instead.
C8_FirstMountEntityWins ==
    (Decoded /\ IsEntityArray(stdout))
    => \A i \in 1..Len(EntityArray(stdout)) :
         FirstMountEntity(EntityArray(stdout), i)
         => IF \E j \in 1..(i - 1) : ~IsMapping(EntityArray(stdout)[j])
            THEN result = MissingProperty
            ELSE (HasString(EntityArray(stdout)[i], "mount-point")
                    /\ HasString(EntityArray(stdout)[i], "dev-entry"))
                 => result = Ok(InfoOf(EntityArray(stdout)[i]))

\* a mapping without "mount-point" was skipped and the second element decoded
C8_Witness ==
    /\ Decoded /\ IsEntityArray(stdout) /\ Len(EntityArray(stdout)) = 2
    /\ FirstMountEntity(EntityArray(stdout), 2)
    /\ IsMapping(EntityArray(stdout)[1])
    /\ HasString(EntityArray(stdout)[2], "mount-point")
    /\ HasString(EntityArray(stdout)[2], "dev-entry")
    /\ result = Ok(InfoOf(EntityArray(stdout)[2]))

-----------------------------------------------------------------------------
(* Properties of the handles and of the attach arguments (checked under Spec) *)

IsKind(h, kind) == h.kind = kind
MountExists(mount_point) == DiskOf(mount_point) \in attached
Abnormal == proc \in {"unwinding", "panicked", "aborted"}

\* C1: through a With no detach is issued while it is in scope, and exactly
\* one, without -force, once it has left scope (by the end of its block or by
\* unwinding); when that detach succeeds the mount point no longer exists.
C1_WithDetachesOnceOnDrop ==
    [][\A i \in HandleIds :
         IsKind(handles'[i], "With") =>
           /\ handles'[i].state \in {"live", "dropped"}
           /\ handles'[i].state = "live" => handles'[i].detaches = <<>>
           /\ handles'[i].state = "dropped" =>
                handles'[i].detaches = <<(<<"detach", handles'[i].info.device>>)>>
           /\ (handles[i].state = "live" /\ handles'[i].state = "dropped") =>
                /\ spawned' = handles'[i].detaches
                /\ handles'[i].outcome = "ok" =>
                     ~(DiskOf(handles'[i].info.mount_point) \in attached')
      ]_vars

\* a With dropped while the process unwinds, its detach succeeding
C1_Witness ==
    \E i \in HandleIds :
      /\ IsKind(handles[i], "With") /\ handles[i].state = "dropped"
      /\ handles[i].outcome = "ok" /\ Len(handles[i].detaches) = 1
      /\ ~MountExists(handles[i].info.mount_point)
      /\ proc = "unwinding"

\* C2: a Handle that is discarded issues no detach and leaves the mount as it
\* is; detach() issues `detach <device>` and force_detach() issues
\* `detach -force <device>`; either consumes the handle whether the detach
\* succeeds or not, so at most one detach is issued through a Handle, and a
\* failed detach is returned as an error value (no panic).
C2_HandleDetachesOnlyExplicitly ==
    [][\A i \in HandleIds :
         IsKind(handles'[i], "Handle") =>
           /\ Len(handles'[i].detaches) <= 1
           /\ handles'[i].state \in {"live", "discarded"} => handles'[i].detaches = <<>>
           /\ HandleDiscard(i) =>
                /\ spawned' = spawned /\ attached' = attached
                /\ handles'[i].state = "discarded"
           /\ HandleDetach(i) =>
                /\ handles'[i].state = "detached"
                /\ handles'[i].detaches = <<(<<"detach", handles[i].info.device>>)>>
                /\ spawned' = handles'[i].detaches
           /\ HandleForceDetach(i) =>
                /\ handles'[i].state = "detached"
                /\ handles'[i].detaches =
                       <<(<<"detach", "-force", handles[i].info.device>>)>>
                /\ spawned' = handles'[i].detaches
           /\ (handles[i].state = "live" /\ handles'[i].state = "detached") =>
                /\ proc' = proc
                /\ result'.tag = IF handles'[i].outcome = "ok" THEN "Ok" ELSE "Err"
           /\ handles[i].state \in {"detached", "discarded"} => handles'[i] = handles[i]
      ]_vars

\* a Handle discarded while its disk is still attached, and one consumed by a
\* detach that failed
C2_Witness ==
    \E i \in HandleIds :
      /\ IsKind(handles[i], "Handle")
      /\ \/ /\ handles[i].state = "discarded"
            /\ MountExists(handles[i].info.mount_point)
         \/ /\ handles[i].state = "detached" /\ handles[i].outcome = "failed"
            /\ result.tag = "Err"
      /\ proc = "running"

\* C3: when the detach issued by a With leaving scope fails, the failure is
\* neither swallowed nor returned: the process panics and runs no further.
C3_WithDropFailureIsFatal ==
    [][\A i \in HandleIds :
         (/\ IsKind(handles'[i], "With") /\ handles'[i].state = "dropped"
          /\ handles'[i].outcome = "failed")
         => /\ Abnormal'
            /\ handles[i].state = "live" =>
                 /\ result'.tag = "Panic"
                 /\ proc' = IF proc = "running" THEN "unwinding" ELSE "aborted"
      ]_vars

\* a With whose detach on drop failed, the process having exited with the panic
C3_Witness ==
    \E i \in HandleIds :
      /\ IsKind(handles[i], "With") /\ handles[i].state = "dropped"
      /\ handles[i].outcome = "failed"
      /\ proc = "panicked"

MountFlags == {"-mountrandom", "-mountroot", "-mountpoint"}
Count(args, flags) == Cardinality({k \in 1..Len(args) : args[k] \in flags})
IsAttachCommand(args) == args[1] = "attach"

\* C9 as stated: every rendered attach argument list holds exactly one
\* mount-strategy flag.
C9_ExactlyOneMountFlag ==
    \A k \in 1..Len(spawned) :
      IsAttachCommand(spawned[k]) => Count(spawned[k], MountFlags) = 1

\* C9 amended: the rendered attach argument list holds exactly one
\* mount-strategy flag when a mount strategy was selected on the builder, and
\* none when no strategy was ever selected (the flags counted as options: the
\* path operands are not spelled like flags).
C9_AtMostOneMountFlag ==
    [][(ab # NoBuilder /\ ab' = NoBuilder) =>
         /\ Len(spawned') = 1 /\ IsAttachCommand(spawned'[1])
         /\ Count(spawned'[1], MountFlags) =
                IF ab.mount.variant = "Default" THEN 0 ELSE 1
      ]_vars

\* attach arguments rendered with a mount strategy, and without one
C9_Witness ==
    /\ Len(spawned) = 1 /\ IsAttachCommand(spawned[1])
    /\ Count(spawned[1], MountFlags) = 1
    /\ "-mountpoint" \in {spawned[1][k] : k \in 1..Len(spawned[1])}

-----------------------------------------------------------------------------
(* Properties of the create side (checked under SpecCreate) *)

\* path ends in suffix: some stem the temporary files are made of precedes it
EndsWith(path, suffix) ==
    \E r \in TempIds : path = temp_dir \o "/.tmp" \o ToString(r) \o suffix

Dropped(t, outcome) == temps[t].state = "dropped" /\ temps[t].outcome = outcome

\* C4 as stated: when the deletion fails as a TempImagePath leaves scope, the
\* process is terminated abnormally.
C4_TempDeleteFailureIsFatal ==
    \A t \in TempIds : Dropped(t, "failed") => Abnormal

\* C4 amended: when the deletion fails as a TempImagePath leaves scope, the
\* failure is silently ignored: nothing panics, the process goes on as it was,
\* and the file is left behind.
C4_TempDeleteFailureIsIgnored ==
    [][\A t \in TempIds :
         (temps[t].state = "live" /\ Dropped(t, "failed")')
         => /\ proc' = proc
            /\ result'.tag # "Panic"
            /\ temps[t].path \in files => temps[t].path \in files'
      ]_vars

\* a TempImagePath dropped, the deletion failed, the process still running
C4_Witness ==
    \E t \in TempIds :
      /\ Dropped(t, "failed") /\ temps[t].path \in files
      /\ proc = "running"

\* a create command whose target is none the client named: create_temp's
IsCreateTempCommand(args) == args[1] = "create" /\ args[Len(args)] \notin Targets

BinaryOptions == <<"spotlight", "anyowners", "skipunreadable", "atomic">>
Positions(args, flags) == {k \in 1..Len(args) : args[k] \in flags}
OptionFlags(option) == {"-" \o option, "-no" \o option}
Toggle(self, option) ==
    CASE option = "spotlight" -> self.spotlight
      [] option = "anyowners" -> self.any_owners
      [] option = "skipunreadable" -> self.skip_unreadable
      [] option = "atomic" -> self.atomic

\* the claim's reading of one rendered argument list
WellRendered(self, image_path, args) ==
    /\ args[1] = "create"
    /\ \A n \in 1..4 :
         /\ Cardinality(Positions(args, OptionFlags(BinaryOptions[n]))) = 1
         /\ ("-" \o BinaryOptions[n]) \in Range(args) <=> Toggle(self, BinaryOptions[n])
    /\ \A n \in 1..3 :
         \A k \in Positions(args, OptionFlags(BinaryOptions[n])) :
           \A m \in Positions(args, OptionFlags(BinaryOptions[n + 1])) : k < m
    /\ "-ov" \in Range(args) <=> self.common_options.overwrite
    /\ "-volname" \in Range(args) <=> self.common_options.volume_name.some
    /\ \A k \in Positions(args, {"-volname"}) :
         /\ k < Len(args) /\ args[k + 1] = self.common_options.volume_name.v
         /\ \A m \in Positions(args, OptionFlags(BinaryOptions[1])) : k + 1 < m
    /\ Len(args) >= 5
    /\ SubSeq(args, Len(args) - 4, Len(args)) =
           <<"-format", self.format, "-srcfolder", self.source_folder, image_path>>

\* C10: the create arguments hold, for spotlight, anyowners, skipunreadable and
\* atomic in that order, exactly one of -X and -noX, the positive one iff the
\* toggle is in effect; -ov iff overwrite is set; -volname <name> iff a volume
\* name was set; and they end with -format <token> -srcfolder <source> <target>.
C10_CreateArguments ==
    [][\A image_path \in Targets :
         Create(image_path) =>
           /\ Len(spawned') = 1
           /\ WellRendered(fb, image_path, spawned'[1])
      ]_vars

\* create arguments rendered from a builder with spotlight_index() and
\* non_atomic() called
C10_Witness ==
    /\ Len(spawned) = 1 /\ spawned[1][1] = "create"
    /\ {"-spotlight", "-noatomic", "-volname"} \subseteq Range(spawned[1])
    /\ spawned[1][Len(spawned[1])] \in Targets

-----------------------------------------------------------------------------
(* Properties of the attach terminal operations (checked under Spec) *)

\* a step of attach() or with(): the builder is consumed
AttachReturns == ab # NoBuilder /\ ab' = NoBuilder

\* handle i is handed out by this step and owns a disk that is attached
HandedOut(i) ==
    /\ handles[i] = NoHandle /\ handles'[i].state = "live"
    /\ DiskOf(handles'[i].info.device) \in attached'
    /\ DiskOf(handles'[i].info.device) \notin attached

\* C11: attach() and with() are atomic: either a handle owning the disk the
\* call attached is returned, or an error is returned and the call leaves no
\* disk attached that was not attached before it (no mount without a handle).
C11_AttachIsAtomic ==
    [][AttachReturns =>
         \/ /\ result'.tag = "Ok"
            /\ \E i \in HandleIds : HandedOut(i)
            /\ Cardinality(attached' \ attached) = 1
         \/ /\ result'.tag = "Err"
            /\ handles' = handles
            /\ attached' = attached
      ]_vars

\* the argument list `attach [flag path]? [-readonly]? [-nobrowse]? -plist <image>`
\* (flag "" : no mount flag)
AttachGrammar(flag, path, readonly, nobrowse, image) ==
    <<"attach">>
    \o (IF flag = "" THEN <<>> ELSE <<flag, path>>)
    \o (IF readonly THEN <<"-readonly">> ELSE <<>>)
    \o (IF nobrowse THEN <<"-nobrowse">> ELSE <<>>)
    \o <<"-plist", image>>

\* args reads as the grammar with these parts
Reads(args, flag, path, readonly, nobrowse, image) ==
    args = AttachGrammar(flag, path, readonly, nobrowse, image)

MountPaths == MountDirs \cup {temp_dir}

\* every builder call turns a list that reads as the grammar into the list the
\* claim states
BuilderCallRenders(flag, path, readonly, nobrowse, image) ==
    /\ \A p \in MountDirs :
         /\ MountRoot(p) =>
              Reads(attach_args(ab'), "-mountroot", p, readonly, nobrowse, image)
         /\ MountPoint_(p) =>
              Reads(attach_args(ab'), "-mountpoint", p, readonly, nobrowse, image)
         /\ MountRandom(p) =>
              Reads(attach_args(ab'), "-mountrandom", p, readonly, nobrowse, image)
    /\ MountTemp =>
         Reads(attach_args(ab'), "-mountrandom", temp_dir, readonly, nobrowse, image)
    /\ ForceReadonly => Reads(attach_args(ab'), flag, path, TRUE, nobrowse, image)
    /\ Hidden => Reads(attach_args(ab'), flag, path, readonly, TRUE, image)

\* C12: the attach arguments always read `attach [mount-flag path]? [-readonly]?
\* [-nobrowse]? -plist <image>` in that order: a new builder renders
\* `attach -plist <image>`; a mount call puts its own flag and path in the
\* place of whatever was selected before (mount_temp as mount_random of the
\* temporary directory) and leaves the rest; force_readonly() and hidden() add
\* -readonly and -nobrowse once, however often and in whatever order they are
\* called; attach() and with() issue exactly the list so rendered.
C12_AttachArguments ==
    [][/\ \A image \in Images :
            AttachNew(image) => Reads(attach_args(ab'), "", "", FALSE, FALSE, image)
       /\ (ab # NoBuilder) =>
            \E flag \in MountFlags \cup {""}, path \in MountPaths \cup {""},
               readonly \in BOOLEAN, nobrowse \in BOOLEAN, image \in Images :
              /\ flag = "" <=> path = ""
              /\ Reads(attach_args(ab), flag, path, readonly, nobrowse, image)
              /\ BuilderCallRenders(flag, path, readonly, nobrowse, image)
              /\ AttachReturns => spawned' = <<attach_args(ab)>>
      ]_vars

\* attach arguments issued with the mount flag of a later selection, -readonly
\* and -nobrowse
C12_Witness ==
    spawned = << <<"attach", "-mountrandom", temp_dir, "-readonly", "-nobrowse",
                   "-plist", "Test.dmg">> >>

-----------------------------------------------------------------------------
(* Properties of the calls that run hdiutil (checked under SpecCalls) *)

\* a step of one of the calls other than create_temp()
ProcessCall ==
    \/ Attach_attach
    \/ Attach_with
    \/ \E image_path \in Targets : Create(image_path)
    \/ \E i \in HandleIds : HandleDetach(i) \/ HandleForceDetach(i)
    \/ \E path \in DetachPaths, force \in BOOLEAN : FreeDetach(path, force)

\* C13 as stated: each call of attach(), with(), create(), create_temp(),
\* Handle::detach(), Handle::force_detach() and detach() issues exactly one
\* hdiutil command, also when the command fails (no second one is issued).
C13_OneProcessPerCall ==
    [][(ProcessCall \/ CreateTemp) => Len(spawned') = 1]_vars

\* C13 amended: each call of attach(), with(), create(), Handle::detach(),
\* Handle::force_detach() and detach() issues exactly one hdiutil command,
\* also when the command fails; create_temp() issues exactly one unless the
\* temporary file could not be allocated, in which case it returns that error
\* and issues none.  A failure of the command is what the call returns.
C13_OneProcessUnlessNoTempFile ==
    [][/\ ProcessCall =>
            /\ Len(spawned') = 1
            /\ proc' = "running" => result'.tag \in {"Ok", "Err"}
       /\ CreateTemp =>
            /\ Len(spawned') = IF result' = TempfileFailed THEN 0 ELSE 1
            /\ result'.tag \in {"Ok", "Err"}
      ]_vars

\* a forced detach that exited non-zero: one command, the error returned
C13_Witness ==
    /\ result = Err("Other", "non-zero exit status for detach")
    /\ Len(spawned) = 1
    /\ spawned[1][1] = "detach" /\ spawned[1][2] = "-force"

-----------------------------------------------------------------------------
(* Properties of a failed create_temp (checked under SpecCreate) *)

\* create_temp() returned the error of create: the placeholder had been allocated
CreateTempFailed(t) == temps[t].state = "none" /\ temps'[t].state = "failed"

\* C14 as stated: when create_temp() fails after the placeholder was allocated,
\* no handle is returned and the placeholder no longer exists.
C14_FailedCreateTempLeavesNoFile ==
    \A t \in TempIds : temps[t].state = "failed" => temps[t].path \notin files

\* C14 amended: when create_temp() fails after the placeholder was allocated
\* (the command not spawned, a non-zero exit, stderr that is no text), the
\* error is returned, no handle is, and the deletion of the placeholder is
\* attempted before the call returns: the file is gone when the deletion
\* succeeds; when it fails the failure is ignored and the file is left behind.
C14_FailedCreateTempDeletesIfItCan ==
    [][\A t \in TempIds :
         CreateTempFailed(t) =>
           /\ result'.tag = "Err" /\ result' # TempfileFailed
           /\ proc' = proc
           /\ \A q \in TempIds : temps'[q].state = "live" => temps[q].state = "live"
           /\ temps'[t].outcome = "ok" => temps'[t].path \notin files'
           /\ temps'[t].outcome = "failed" => temps'[t].path \in files'
           /\ files' \ {temps'[t].path} = files
      ]_vars

\* a create_temp whose command exited non-zero, the placeholder deleted
C14_Witness ==
    \E t \in TempIds :
      /\ temps[t].state = "failed" /\ temps[t].outcome = "ok"
      /\ temps[t].path \notin files
      /\ result = Err("Other", "hdiutil create failed")
      /\ Len(spawned) = 1 /\ IsCreateTempCommand(spawned[1])

====
